---- MODULE Spec2Model ----
(***************************************************************************)
(* A model of DecypharrDownloadClient                                      *)
(* (src/media_manager/torrent/decypharr.py): the client of a               *)
(* QBittorrent-compatible HTTP API.  One action per public operation of    *)
(* the class; the remote service's reply to each HTTP request is an input  *)
(* of the action.                                                          *)
(*                                                                         *)
(* Representation of Python values:                                        *)
(*   - a str that the code inspects character by character (a response's   *)
(*     text, an exception message) is a sequence of strings, each element  *)
(*     a character or a literal chunk of an f-string;                      *)
(*   - None, and the values that share a variable with it, are tagged      *)
(*     records [t |-> ...];                                                *)
(*   - a raise and a return are the two shapes of an operation's outcome.  *)
(***************************************************************************)
EXTENDS Naturals, Sequences, FiniteSets, TLC

VARIABLES
    phase,      \* "new": not constructed; "ready": __init__ returned; "failed": __init__ raised
    config,     \* MediaManagerConfig().torrents.decypharr (username, password, category_name, category_save_path)
    cookie,     \* self._cookie
    torrent,    \* the caller's Torrent record (None until a submit returns one)
    op,         \* the call that has just ended and its arguments (NoCall between calls)
    sent,       \* the HTTP requests that call sent, in order
    got,        \* the replies to them, in order
    outcome,    \* how that call ended: Return(value) or Raise(type, msg)
    logins,     \* number of auth/login requests sent since construction began
    lifecycle,  \* whether a request other than auth/login has been sent so far
    setCookie   \* the cookies of the response to the login request (none before it)

vars == <<phase, config, cookie, torrent, op, sent, got, outcome, logins, lifecycle,
          setCookie>>

----------------------------------------------------------------------------
(* Bounds *)

\* Longest run of whitespace put before and after a text body.
MaxPad == 1

----------------------------------------------------------------------------
(* Python values *)

None == [t |-> "None"]
PyStr(s) == [t |-> "str", v |-> s]

\* bool(x) of an Optional[str]
Truthy(x) == x.t = "str" /\ x.v # ""

Return(v) == [kind |-> "return", value |-> v]
Raise(type, msg) == [kind |-> "raise", type |-> type, msg |-> msg]

Digits == <<"0", "1", "2", "3", "4", "5", "6", "7", "8", "9">>

\* str(n) of a non-negative int
RECURSIVE IntStr(_)
IntStr(n) == IF n < 10 THEN <<Digits[n + 1]>>
             ELSE IntStr(n \div 10) \o <<Digits[(n % 10) + 1]>>

Whitespace == {" ", "\t", "\n", "\r", "\f"}

\* str.lstrip()
RECURSIVE LStrip(_)
LStrip(s) == IF s # <<>> /\ Head(s) \in Whitespace THEN LStrip(Tail(s)) ELSE s

\* str.rstrip()
RECURSIVE RStrip(_)
RStrip(s) == IF s # <<>> /\ s[Len(s)] \in Whitespace
             THEN RStrip(SubSeq(s, 1, Len(s) - 1)) ELSE s

\* a strip that forgets the trailing whitespace
StripLeftOnly(s) == LStrip(s)

\* str.strip()
Strip(s) == RStrip(LStrip(s))

----------------------------------------------------------------------------
(* JSON values, as response.json() returns them *)

JNum(n) == [t |-> "int", v |-> n]
JBool(b) == [t |-> "bool", v |-> b]
JArr(items) == [t |-> "list", v |-> items]
\* a dict, as the sequence of its <<key, value>> items (keys distinct)
JObj(items) == [t |-> "dict", v |-> items]

\* response.json() of a body that is not JSON raises ValueError
ValueError == [t |-> "ValueError"]

\* json.dumps: the text of a JSON value
RECURSIVE Dumps(_)
RECURSIVE DumpsItems(_)
RECURSIVE DumpsPairs(_)
DumpsItems(items) ==
    IF items = <<>> THEN <<>>
    ELSE Dumps(Head(items))
         \o (IF Len(items) > 1 THEN <<",">> \o DumpsItems(Tail(items)) ELSE <<>>)
DumpsPairs(items) ==
    IF items = <<>> THEN <<>>
    ELSE <<"\"", Head(items)[1], "\"", ":">> \o Dumps(Head(items)[2])
         \o (IF Len(items) > 1 THEN <<",">> \o DumpsPairs(Tail(items)) ELSE <<>>)
Dumps(j) ==
    CASE j.t = "None" -> <<"null">>
      [] j.t = "bool" -> IF j.v THEN <<"true">> ELSE <<"false">>
      [] j.t = "int"  -> IntStr(j.v)
      [] j.t = "str"  -> <<"\"", j.v, "\"">>
      [] j.t = "list" -> <<"[">> \o DumpsItems(j.v) \o <<"]">>
      [] j.t = "dict" -> <<"{">> \o DumpsPairs(j.v) \o <<"}">>

----------------------------------------------------------------------------
(* The remote service: what one HTTP exchange can produce *)

NoCookies == [n \in {} |-> ""]

\* session.request / session.post returned a response
Response(code, text, json, cookies) ==
    [t |-> "Response", status_code |-> code, text |-> text, json |-> json,
     cookies |-> cookies]

\* session.request / session.post raised requests.RequestException; cause is str(e)
RequestException(cause) == [t |-> "RequestException", cause |-> cause]

Causes == {<<"Connection refused">>, <<"Read timed out">>}

OkStatuses == {200, 399}
ErrStatuses == {400, 403, 500}
LoginStatuses == OkStatuses \cup ErrStatuses \cup {204}

PadChars == {" "}

RECURSIVE Pads(_)
Pads(n) == IF n = 0 THEN {<<>>}
           ELSE Pads(n - 1) \cup {<<c>> \o p : c \in PadChars, p \in Pads(n - 1)}

TextCores == { <<"O", "k", ".">>, <<"O", "k", ".", "\n">>, <<>>,
               <<"F", "a", "i", "l", "s", ".">>, <<"O", "k">>, <<"o", "k", ".">>,
               <<"O", "k", ".", " ", "O", "k", ".">>, <<"v", "1", ".", "2">> }

\* bodies that are not JSON
Texts == {l \o c \o r : l \in Pads(MaxPad), c \in TextCores, r \in Pads(MaxPad)}

ErrTexts == {<<>>, <<"F", "a", "i", "l", "s", ".">>}

\* a downloading set that misses the last label
DOWNLOADING_STATE_short ==
    << "allocating", "downloading", "metaDL", "pausedDL", "queuedDL", "stalledDL",
       "checkingDL", "forcedDL", "moving", "stoppedDL" >>

\* the state labels the remote may report: QBittorrent's, and some that are not
Labels == { "allocating", "downloading", "metaDL", "pausedDL", "queuedDL", "stalledDL",
            "checkingDL", "forcedDL", "moving", "stoppedDL", "forcedMetaDL",
            "uploading", "pausedUP", "queuedUP", "stalledUP", "checkingUP", "forcedUP",
            "stoppedUP", "completed", "missingFiles", "error", "checkingResumeData",
            "unknown", "", "Downloading", "pausedup", "queued" }

Entry(state) == JObj(<< <<"state", state>> >>)

JsonDocs ==
    {JArr(<<Entry(PyStr(l))>>) : l \in Labels}
    \cup { JArr(<<>>), JObj(<<>>), PyStr(""), JNum(0), None, JBool(FALSE),
           JArr(<<JObj(<<>>)>>), JArr(<<JObj(<< <<"name", PyStr("x")>> >>)>>),
           JArr(<<Entry(JNum(1))>>), JArr(<<Entry(None)>>),
           JArr(<<Entry(JArr(<<PyStr("error")>>))>>),
           JArr(<<Entry(PyStr("pausedUP")), Entry(PyStr("error"))>>),
           JArr(<<PyStr("downloading")>>), JArr(<<JNum(1)>>), JArr(<<None>>),
           JArr(<<JArr(<<>>)>>),
           Entry(PyStr("downloading")), PyStr("downloading"), JNum(1), JBool(TRUE) }

\* replies whose status the dispatch primitive rejects, and transport failures
FailedReplies ==
    {RequestException(c) : c \in Causes}
    \cup {Response(code, tx, ValueError, NoCookies) : code \in ErrStatuses, tx \in ErrTexts}

\* replies to torrents/add
AddReplies ==
    FailedReplies
    \cup {Response(code, tx, ValueError, NoCookies) : code \in OkStatuses, tx \in Texts}

\* replies to the other endpoints that answer in plain text
TextReplies ==
    FailedReplies
    \cup {Response(code, tx, ValueError, NoCookies) : code \in OkStatuses, tx \in TextCores}

\* replies to an endpoint that answers in JSON (torrents/info, torrents/files)
JsonReplies ==
    FailedReplies
    \cup {Response(code, Dumps(j), j, NoCookies) : code \in OkStatuses, j \in JsonDocs}
    \cup {Response(code, tx, ValueError, NoCookies) :
              code \in OkStatuses, tx \in {<<>>, <<"O", "k", ".">>}}

Tokens == {"", "abc"}

\* replies to auth/login: any status, with or without a SID cookie
LoginReplies ==
    {RequestException(c) : c \in Causes}
    \cup {Response(code, tx, ValueError, ck) :
              code \in LoginStatuses, tx \in ErrTexts,
              ck \in {NoCookies} \cup {[n \in {"SID"} |-> tok] : tok \in Tokens}}

----------------------------------------------------------------------------
(* DecypharrDownloadClient *)

DOWNLOADING_STATE ==
    << "allocating", "downloading", "metaDL", "pausedDL", "queuedDL", "stalledDL",
       "checkingDL", "forcedDL", "moving", "stoppedDL", "forcedMetaDL" >>
FINISHED_STATE ==
    << "uploading", "pausedUP", "queuedUP", "stalledUP", "checkingUP", "forcedUP",
       "stoppedUP", "completed" >>
ERROR_STATE == <<"missingFiles", "error", "checkingResumeData">>
UNKNOWN_STATE == <<"unknown">>

\* self.timeout
timeout == 30

\* one call of session.request / session.post
HttpRequest(method, url, params, data, cookies) ==
    [method |-> method, url |-> url, params |-> params, data |-> data,
     cookies |-> cookies, timeout |-> timeout]

\* _authenticate: the request it posts
_authenticate_request(cfg) ==
    HttpRequest("POST", "/api/v2/auth/login", None,
                [username |-> cfg.username, password |-> cfg.password], None)

\* an _authenticate that rejects only a 403
_authenticate_403_only(cfg, reply) ==
    LET req == _authenticate_request(cfg) IN
    IF reply.t = "RequestException"
    THEN [sent |-> <<req>>, cookie |-> None,
          outcome |-> Raise("RuntimeError",
                            <<"Decypharr authentication failed: ">> \o reply.cause)]
    ELSE IF reply.status_code = 403
    THEN [sent |-> <<req>>, cookie |-> None,
          outcome |-> Raise("RuntimeError", <<"Invalid Decypharr username or password">>)]
    ELSE [sent |-> <<req>>,
          cookie |-> IF "SID" \in DOMAIN reply.cookies
                     THEN PyStr(reply.cookies["SID"]) ELSE None,
          outcome |-> Return(None)]

\* an _authenticate that takes a 200 without an SID cookie for a failed login
_authenticate_requires_sid(cfg, reply) ==
    LET req == _authenticate_request(cfg) IN
    IF reply.t = "RequestException"
    THEN [sent |-> <<req>>, cookie |-> None,
          outcome |-> Raise("RuntimeError",
                            <<"Decypharr authentication failed: ">> \o reply.cause)]
    ELSE IF reply.status_code = 403
    THEN [sent |-> <<req>>, cookie |-> None,
          outcome |-> Raise("RuntimeError", <<"Invalid Decypharr username or password">>)]
    ELSE IF reply.status_code # 200
    THEN [sent |-> <<req>>, cookie |-> None,
          outcome |-> Raise("RuntimeError", <<"Authentication failed: ">> \o reply.text)]
    ELSE IF "SID" \in DOMAIN reply.cookies
    THEN [sent |-> <<req>>, cookie |-> PyStr(reply.cookies["SID"]),
          outcome |-> Return(None)]
    ELSE [sent |-> <<req>>, cookie |-> None,
          outcome |-> Raise("RuntimeError", <<"Authentication failed: ">> \o reply.text)]

\* _authenticate: outcome and the value of self._cookie afterwards
_authenticate(cfg, reply) ==
    LET req == _authenticate_request(cfg) IN
    IF reply.t = "RequestException"
    THEN [sent |-> <<req>>, cookie |-> None,
          outcome |-> Raise("RuntimeError",
                            <<"Decypharr authentication failed: ">> \o reply.cause)]
    ELSE IF reply.status_code = 403
    THEN [sent |-> <<req>>, cookie |-> None,
          outcome |-> Raise("RuntimeError", <<"Invalid Decypharr username or password">>)]
    ELSE IF reply.status_code # 200
    THEN [sent |-> <<req>>, cookie |-> None,
          outcome |-> Raise("RuntimeError", <<"Authentication failed: ">> \o reply.text)]
    ELSE [sent |-> <<req>>,
          cookie |-> IF "SID" \in DOMAIN reply.cookies
                     THEN PyStr(reply.cookies["SID"]) ELSE None,
          outcome |-> Return(None)]

\* __init__
__init__(cfg, reply) ==
    IF Truthy(cfg.username) /\ Truthy(cfg.password)
    THEN _authenticate(cfg, reply)
    ELSE [sent |-> <<>>, cookie |-> None, outcome |-> Return(None)]

\* a _request that does not tell a 403 from the other statuses >= 400
_request_no_403(self_cookie, method, endpoint, params, data, reply) ==
    LET cookies == IF Truthy(self_cookie) THEN [n \in {"SID"} |-> self_cookie.v] ELSE None
        req == HttpRequest(method, endpoint, params, data, cookies)
    IN  IF reply.t = "RequestException"
        THEN [sent |-> <<req>>,
              outcome |-> Raise("RuntimeError",
                                <<"Decypharr request failed: ">> \o reply.cause)]
        ELSE IF reply.status_code >= 400
        THEN [sent |-> <<req>>,
              outcome |-> Raise("RuntimeError",
                                <<"Decypharr API error ">> \o IntStr(reply.status_code)
                                    \o <<": ">> \o reply.text)]
        ELSE [sent |-> <<req>>, outcome |-> Return(reply)]

\* a _request that logs in again when it is answered 403
_request_relogin(self_cookie, method, endpoint, params, data, reply) ==
    LET cookies == IF Truthy(self_cookie) THEN [n \in {"SID"} |-> self_cookie.v] ELSE None
        req == HttpRequest(method, endpoint, params, data, cookies)
        login == HttpRequest("POST", "/api/v2/auth/login", None, None, None)
    IN  IF reply.t = "RequestException"
        THEN [sent |-> <<req>>,
              outcome |-> Raise("RuntimeError",
                                <<"Decypharr request failed: ">> \o reply.cause)]
        ELSE IF reply.status_code = 403
        THEN [sent |-> <<req, login>>,
              outcome |-> Raise("RuntimeError",
                                <<"Decypharr authentication required or invalid">>)]
        ELSE IF reply.status_code >= 400
        THEN [sent |-> <<req>>,
              outcome |-> Raise("RuntimeError",
                                <<"Decypharr API error ">> \o IntStr(reply.status_code)
                                    \o <<": ">> \o reply.text)]
        ELSE [sent |-> <<req>>, outcome |-> Return(reply)]

\* _request: the request it sends and how it ends
_request(self_cookie, method, endpoint, params, data, reply) ==
    LET cookies == IF Truthy(self_cookie) THEN [n \in {"SID"} |-> self_cookie.v] ELSE None
        req == HttpRequest(method, endpoint, params, data, cookies)
    IN  IF reply.t = "RequestException"
        THEN [sent |-> <<req>>,
              outcome |-> Raise("RuntimeError",
                                <<"Decypharr request failed: ">> \o reply.cause)]
        ELSE IF reply.status_code = 403
        THEN [sent |-> <<req>>,
              outcome |-> Raise("RuntimeError",
                                <<"Decypharr authentication required or invalid">>)]
        ELSE IF reply.status_code >= 400
        THEN [sent |-> <<req>>,
              outcome |-> Raise("RuntimeError",
                                <<"Decypharr API error ">> \o IntStr(reply.status_code)
                                    \o <<": ">> \o reply.text)]
        ELSE [sent |-> <<req>>, outcome |-> Return(reply)]

\* media_manager.torrent.schemas.Torrent
Torrent(status, title, quality, imported, hash) ==
    [t |-> "Torrent", status |-> status, title |-> title, quality |-> quality,
     imported |-> imported, hash |-> hash]

\* media_manager.torrent.utils.get_torrent_hash: the content identifier of a
\* source locator, the same for the same locator and different for different ones
get_torrent_hash(indexer_result) ==
    CASE indexer_result.download_url = "magnet:?xt=urn:btih:aaaa" -> "aaaa"
      [] indexer_result.download_url = "magnet:?xt=urn:btih:bbbb" -> "bbbb"
      [] OTHER -> "0000"

\* an `except RuntimeError` in the place of `except Exception`
IsRuntimeError(type) == type = "RuntimeError"

\* the exception classes raised in this module that `except Exception` catches
IsException(type) ==
    type \in {"RuntimeError", "ValueError", "KeyError", "TypeError", "AttributeError"}

\* type(x).__name__ of a parsed JSON value
TypeName(j) == IF j.t = "None" THEN "NoneType" ELSE j.t

\* bool(x) of a parsed JSON value
JTruthy(j) ==
    CASE j.t = "None" -> FALSE
      [] j.t = "bool" -> j.v
      [] j.t = "int"  -> j.v # 0
      [] j.t = "str"  -> j.v # ""
      [] j.t = "list" -> j.v # <<>>
      [] j.t = "dict" -> j.v # <<>>

\* d.get(key, default) of a dict
DictGet(d, key, default) ==
    IF \E i \in 1..Len(d.v) : d.v[i][1] = key
    THEN d.v[CHOOSE i \in 1..Len(d.v) : d.v[i][1] = key][2]
    ELSE default

\* get_torrent_status, `torrents[0].get("state", "unknown")` of a truthy JSON value
FirstState(torrents) ==
    CASE torrents.t = "list" ->
            IF torrents.v[1].t = "dict"
            THEN Return(DictGet(torrents.v[1], "state", PyStr("unknown")))
            ELSE Raise("AttributeError",
                       <<"'", TypeName(torrents.v[1]), "' object has no attribute 'get'">>)
      [] torrents.t = "str" ->
            Raise("AttributeError", <<"'", "str", "' object has no attribute 'get'">>)
      [] torrents.t = "dict" -> Raise("KeyError", <<"0">>)
      [] OTHER ->
            Raise("TypeError", <<"'", TypeName(torrents), "' object is not subscriptable">>)

\* `state in <tuple of str>`
InTuple(state, tuple) == state.t = "str" /\ \E i \in 1..Len(tuple) : tuple[i] = state.v

\* get_torrent_status, the mapping of a state to a TorrentStatus
MapState(state) ==
    IF InTuple(state, DOWNLOADING_STATE) THEN "downloading"
    ELSE IF InTuple(state, FINISHED_STATE) THEN "finished"
    ELSE IF InTuple(state, ERROR_STATE) THEN "error"
    ELSE IF InTuple(state, UNKNOWN_STATE) THEN "unknown"
    ELSE "unknown"

\* a status query that indexes the parsed body without testing it for emptiness
get_torrent_status_unguarded(self_cookie, tor, reply) ==
    LET r == _request(self_cookie, "GET", "/api/v2/torrents/info",
                      [hashes |-> tor.hash], None, reply)
    IN  IF r.outcome.kind = "raise" THEN r
        ELSE IF reply.json.t = "ValueError"
        THEN [sent |-> r.sent, outcome |-> Return("unknown")]
        ELSE IF ~JTruthy(reply.json)
        THEN [sent |-> r.sent,
              outcome |-> Raise("IndexError", <<"list index out of range">>)]
        ELSE LET state == FirstState(reply.json)
             IN  IF state.kind = "raise" THEN [sent |-> r.sent, outcome |-> state]
                 ELSE [sent |-> r.sent, outcome |-> Return(MapState(state.value))]

\* a status query that falls back on the status stored in the record
get_torrent_status_cached(self_cookie, tor, reply) ==
    LET r == _request(self_cookie, "GET", "/api/v2/torrents/info",
                      [hashes |-> tor.hash], None, reply)
    IN  IF r.outcome.kind = "raise" THEN r
        ELSE IF reply.json.t = "ValueError"
        THEN [sent |-> r.sent, outcome |-> Return("unknown")]
        ELSE IF ~JTruthy(reply.json)
        THEN [sent |-> r.sent, outcome |-> Return(tor.status)]
        ELSE LET state == FirstState(reply.json)
             IN  IF state.kind = "raise" THEN [sent |-> r.sent, outcome |-> state]
                 ELSE [sent |-> r.sent, outcome |-> Return(MapState(state.value))]

\* a status query that degrades a failed dispatch to `unknown`
get_torrent_status_degrading(self_cookie, tor, reply) ==
    LET r == _request(self_cookie, "GET", "/api/v2/torrents/info",
                      [hashes |-> tor.hash], None, reply)
    IN  IF r.outcome.kind = "raise" \/ reply.json.t = "ValueError"
        THEN [sent |-> r.sent, outcome |-> Return("unknown")]
        ELSE IF ~JTruthy(reply.json)
        THEN [sent |-> r.sent, outcome |-> Return("unknown")]
        ELSE LET state == FirstState(reply.json)
             IN  IF state.kind = "raise" THEN [sent |-> r.sent, outcome |-> state]
                 ELSE [sent |-> r.sent, outcome |-> Return(MapState(state.value))]

\* get_torrent_status
get_torrent_status(self_cookie, tor, reply) ==
    LET r == _request(self_cookie, "GET", "/api/v2/torrents/info",
                      [hashes |-> tor.hash], None, reply)
    IN  IF r.outcome.kind = "raise" THEN r
        ELSE IF reply.json.t = "ValueError"
        THEN [sent |-> r.sent, outcome |-> Return("unknown")]
        ELSE IF ~JTruthy(reply.json)
        THEN [sent |-> r.sent, outcome |-> Return("unknown")]
        ELSE LET state == FirstState(reply.json)
             IN  IF state.kind = "raise" THEN [sent |-> r.sent, outcome |-> state]
                 ELSE [sent |-> r.sent, outcome |-> Return(MapState(state.value))]

\* download_torrent, the form it posts
AddData(cfg, indexer_result) ==
    LET category == IF Truthy(cfg.category_name) THEN cfg.category_name.v ELSE "movies"
    IN  IF Truthy(cfg.category_save_path)
        THEN [urls |-> indexer_result.download_url, category |-> category,
              savepath |-> cfg.category_save_path.v]
        ELSE [urls |-> indexer_result.download_url, category |-> category]

\* a download_torrent that queries the status before it looks at the answer to the add
download_torrent_eager(self_cookie, cfg, indexer_result, reply, reply2) ==
    LET torrent_hash == get_torrent_hash(indexer_result)
        r == _request(self_cookie, "POST", "/api/v2/torrents/add", None,
                      AddData(cfg, indexer_result), reply)
    IN  IF r.outcome.kind = "raise" THEN r
        ELSE LET response_text == Strip(reply.text)
                 tor == Torrent("unknown", indexer_result.title,
                                indexer_result.quality, FALSE, torrent_hash)
                 q == get_torrent_status(self_cookie, tor, reply2)
             IN  IF response_text # <<"O", "k", ".">>
                 THEN [sent |-> r.sent \o q.sent,
                       outcome |-> Raise("RuntimeError",
                                         <<"Failed to add torrent to Decypharr: ">>
                                             \o response_text)]
                 ELSE IF q.outcome.kind = "return"
                 THEN [sent |-> r.sent \o q.sent,
                       outcome |-> Return([tor EXCEPT !.status = q.outcome.value])]
                 ELSE [sent |-> r.sent \o q.sent, outcome |-> Return(tor)]

\* download_torrent; reply2 answers the status query, when one is made
download_torrent(self_cookie, cfg, indexer_result, reply, reply2) ==
    LET torrent_hash == get_torrent_hash(indexer_result)
        r == _request(self_cookie, "POST", "/api/v2/torrents/add", None,
                      AddData(cfg, indexer_result), reply)
    IN  IF r.outcome.kind = "raise" THEN r
        ELSE LET response_text == Strip(reply.text) IN
             IF response_text # <<"O", "k", ".">>
             THEN [sent |-> r.sent,
                   outcome |-> Raise("RuntimeError",
                                     <<"Failed to add torrent to Decypharr: ">>
                                         \o response_text)]
             ELSE LET tor == Torrent("unknown", indexer_result.title,
                                     indexer_result.quality, FALSE, torrent_hash)
                      q == get_torrent_status(self_cookie, tor, reply2)
                  IN  IF q.outcome.kind = "return"
                      THEN [sent |-> r.sent \o q.sent,
                            outcome |-> Return([tor EXCEPT !.status = q.outcome.value])]
                      ELSE IF IsException(q.outcome.type)
                      THEN [sent |-> r.sent \o q.sent, outcome |-> Return(tor)]
                      ELSE [sent |-> r.sent \o q.sent, outcome |-> q.outcome]

\* a remove_torrent that sends str(delete_data)
remove_torrent_str(self_cookie, tor, delete_data, reply) ==
    LET r == _request(self_cookie, "POST", "/api/v2/torrents/delete", None,
                      [hashes |-> tor.hash,
                       deleteFiles |-> IF delete_data THEN "True" ELSE "False"], reply)
    IN  IF r.outcome.kind = "raise" THEN r
        ELSE [sent |-> r.sent, outcome |-> Return(None)]

\* a remove_torrent that takes a rejected delete for an already removed torrent
remove_torrent_suppressing(self_cookie, tor, delete_data, reply) ==
    LET r == _request(self_cookie, "POST", "/api/v2/torrents/delete", None,
                      [hashes |-> tor.hash,
                       deleteFiles |-> IF delete_data THEN "true" ELSE "false"], reply)
    IN  [sent |-> r.sent, outcome |-> Return(None)]

\* remove_torrent
remove_torrent(self_cookie, tor, delete_data, reply) ==
    LET r == _request(self_cookie, "POST", "/api/v2/torrents/delete", None,
                      [hashes |-> tor.hash,
                       deleteFiles |-> IF delete_data THEN "true" ELSE "false"], reply)
    IN  IF r.outcome.kind = "raise" THEN r
        ELSE [sent |-> r.sent, outcome |-> Return(None)]

\* a pause_torrent that tries a second time when the first request fails
pause_torrent_retry(self_cookie, tor, reply) ==
    LET r == _request(self_cookie, "POST", "/api/v2/torrents/pause", None,
                      [hashes |-> tor.hash], reply)
    IN  IF r.outcome.kind = "raise"
        THEN [sent |-> r.sent \o r.sent, outcome |-> r.outcome, tor |-> tor]
        ELSE [sent |-> r.sent, outcome |-> Return(None), tor |-> tor]

\* a pause_torrent that marks the record it was given
pause_torrent_marking(self_cookie, tor, reply) ==
    LET r == _request(self_cookie, "POST", "/api/v2/torrents/pause", None,
                      [hashes |-> tor.hash], reply)
    IN  IF r.outcome.kind = "raise" THEN [sent |-> r.sent, outcome |-> r.outcome, tor |-> tor]
        ELSE [sent |-> r.sent, outcome |-> Return(None),
              tor |-> [tor EXCEPT !.status = "unknown"]]

\* pause_torrent; tor is the record as the call leaves it
pause_torrent(self_cookie, tor, reply) ==
    LET r == _request(self_cookie, "POST", "/api/v2/torrents/pause", None,
                      [hashes |-> tor.hash], reply)
    IN  IF r.outcome.kind = "raise" THEN [sent |-> r.sent, outcome |-> r.outcome, tor |-> tor]
        ELSE [sent |-> r.sent, outcome |-> Return(None), tor |-> tor]

\* resume_torrent; tor is the record as the call leaves it
resume_torrent(self_cookie, tor, reply) ==
    LET r == _request(self_cookie, "POST", "/api/v2/torrents/resume", None,
                      [hashes |-> tor.hash], reply)
    IN  IF r.outcome.kind = "raise" THEN [sent |-> r.sent, outcome |-> r.outcome, tor |-> tor]
        ELSE [sent |-> r.sent, outcome |-> Return(None), tor |-> tor]

\* a get_torrent_files that answers a failed dispatch with no files
get_torrent_files_degrading(self_cookie, tor, reply) ==
    LET r == _request(self_cookie, "GET", "/api/v2/torrents/files",
                      [hash |-> tor.hash], None, reply)
    IN  IF r.outcome.kind = "raise" THEN [sent |-> r.sent, outcome |-> Return(JArr(<<>>))]
        ELSE IF reply.json.t = "ValueError"
        THEN [sent |-> r.sent, outcome |-> Return(JArr(<<>>))]
        ELSE [sent |-> r.sent, outcome |-> Return(reply.json)]

\* get_torrent_files
get_torrent_files(self_cookie, tor, reply) ==
    LET r == _request(self_cookie, "GET", "/api/v2/torrents/files",
                      [hash |-> tor.hash], None, reply)
    IN  IF r.outcome.kind = "raise" THEN r
        ELSE IF reply.json.t = "ValueError"
        THEN [sent |-> r.sent, outcome |-> Return(JArr(<<>>))]
        ELSE [sent |-> r.sent, outcome |-> Return(reply.json)]

\* a health_check that wants a version in the body
health_check_version(self_cookie, reply) ==
    LET r == _request(self_cookie, "GET", "/api/v2/app/version", None, None, reply)
    IN  IF r.outcome.kind = "return"
        THEN [sent |-> r.sent, outcome |-> Return(Strip(reply.text) # <<>>)]
        ELSE [sent |-> r.sent, outcome |-> Return(FALSE)]

\* health_check
health_check(self_cookie, reply) ==
    LET r == _request(self_cookie, "GET", "/api/v2/app/version", None, None, reply)
    IN  IF r.outcome.kind = "return"
        THEN [sent |-> r.sent, outcome |-> Return(TRUE)]
        ELSE IF IsException(r.outcome.type)
        THEN [sent |-> r.sent, outcome |-> Return(FALSE)]
        ELSE r

----------------------------------------------------------------------------
(* The callers: configuration, query results, the records they hold *)

Configs ==
    { [username |-> PyStr("admin"), password |-> PyStr("secret"),
       category_name |-> PyStr("tv"), category_save_path |-> PyStr("/data")],
      [username |-> None, password |-> None,
       category_name |-> None, category_save_path |-> None],
      [username |-> PyStr("admin"), password |-> PyStr(""),
       category_name |-> PyStr(""), category_save_path |-> PyStr("")] }

IndexerResults ==
    { [title |-> "A", quality |-> "1080p", download_url |-> "magnet:?xt=urn:btih:aaaa"],
      [title |-> "B", quality |-> "720p", download_url |-> "magnet:?xt=urn:btih:bbbb"] }

\* a record the caller kept from an earlier session
StoredTorrent == Torrent("finished", "C", "2160p", TRUE, "cccc")

LoginUrl == "/api/v2/auth/login"

LoginsIn(reqs) == Cardinality({i \in 1..Len(reqs) : reqs[i].url = LoginUrl})

\* what every call leaves behind: the call, its requests and replies, its outcome
Record(name, args, r, replies) ==
    /\ op' = [name |-> name, args |-> args]
    /\ sent' = r.sent
    /\ got' = SubSeq(replies, 1, IF Len(r.sent) < Len(replies) THEN Len(r.sent)
                                  ELSE Len(replies))
    /\ outcome' = r.outcome
    /\ logins' = logins + LoginsIn(r.sent)
    /\ lifecycle' = (lifecycle \/ \E i \in 1..Len(r.sent) : r.sent[i].url # LoginUrl)

NoCall == [name |-> "", args |-> <<>>]

Init ==
    /\ phase = "new"
    /\ config \in Configs
    /\ cookie = None
    /\ torrent \in {None, StoredTorrent}
    /\ op = NoCall
    /\ sent = <<>>
    /\ got = <<>>
    /\ outcome = Return(None)
    /\ logins = 0
    /\ lifecycle = FALSE
    /\ setCookie = NoCookies

\* DecypharrDownloadClient()
Construct ==
    /\ phase = "new"
    /\ op = NoCall
    /\ \E reply \in LoginReplies :
          LET r == __init__(config, reply) IN
          /\ phase' = IF r.outcome.kind = "return" THEN "ready" ELSE "failed"
          /\ cookie' = r.cookie
          /\ setCookie' = IF r.sent # <<>> /\ reply.t = "Response"
                          THEN reply.cookies ELSE NoCookies
          /\ Record("__init__", <<>>, r, <<reply>>)
    /\ UNCHANGED <<config, torrent>>

\* client.download_torrent(indexer_result); the caller keeps the record returned
DownloadTorrent ==
    /\ phase = "ready"
    /\ op = NoCall
    /\ \E indexer_result \in IndexerResults, reply \in AddReplies :
          LET queries == Len(download_torrent(cookie, config, indexer_result, reply,
                                              CHOOSE x \in FailedReplies : TRUE).sent) > 1
          IN  \E reply2 \in IF queries THEN JsonReplies ELSE {reply} :
                 LET r == download_torrent(cookie, config, indexer_result, reply, reply2) IN
                 /\ torrent' = IF r.outcome.kind = "return" THEN r.outcome.value ELSE torrent
                 /\ Record("download_torrent", [indexer_result |-> indexer_result], r,
                           <<reply, reply2>>)
    /\ UNCHANGED <<phase, config, cookie, setCookie>>

\* client.remove_torrent(torrent, delete_data)
RemoveTorrent ==
    /\ phase = "ready"
    /\ op = NoCall
    /\ torrent.t = "Torrent"
    /\ \E delete_data \in BOOLEAN, reply \in TextReplies :
          Record("remove_torrent", [torrent |-> torrent, delete_data |-> delete_data],
                 remove_torrent(cookie, torrent, delete_data, reply), <<reply>>)
    /\ UNCHANGED <<phase, config, cookie, torrent, setCookie>>

\* client.get_torrent_status(torrent)
GetTorrentStatus ==
    /\ phase = "ready"
    /\ op = NoCall
    /\ torrent.t = "Torrent"
    /\ \E reply \in JsonReplies :
          Record("get_torrent_status", [torrent |-> torrent],
                 get_torrent_status(cookie, torrent, reply), <<reply>>)
    /\ UNCHANGED <<phase, config, cookie, torrent, setCookie>>

\* client.pause_torrent(torrent)
PauseTorrent ==
    /\ phase = "ready"
    /\ op = NoCall
    /\ torrent.t = "Torrent"
    /\ \E reply \in TextReplies :
          LET r == pause_torrent(cookie, torrent, reply) IN
          /\ torrent' = r.tor
          /\ Record("pause_torrent", [torrent |-> torrent], r, <<reply>>)
    /\ UNCHANGED <<phase, config, cookie, setCookie>>

\* client.resume_torrent(torrent)
ResumeTorrent ==
    /\ phase = "ready"
    /\ op = NoCall
    /\ torrent.t = "Torrent"
    /\ \E reply \in TextReplies :
          LET r == resume_torrent(cookie, torrent, reply) IN
          /\ torrent' = r.tor
          /\ Record("resume_torrent", [torrent |-> torrent], r, <<reply>>)
    /\ UNCHANGED <<phase, config, cookie, setCookie>>

\* client.get_torrent_files(torrent)
GetTorrentFiles ==
    /\ phase = "ready"
    /\ op = NoCall
    /\ torrent.t = "Torrent"
    /\ \E reply \in JsonReplies :
          Record("get_torrent_files", [torrent |-> torrent],
                 get_torrent_files(cookie, torrent, reply), <<reply>>)
    /\ UNCHANGED <<phase, config, cookie, torrent, setCookie>>

\* client.health_check()
HealthCheck ==
    /\ phase = "ready"
    /\ op = NoCall
    /\ \E reply \in TextReplies :
          Record("health_check", <<>>, health_check(cookie, reply), <<reply>>)
    /\ UNCHANGED <<phase, config, cookie, torrent, setCookie>>

\* the caller takes the outcome of the call and goes on
Continue ==
    /\ op # NoCall
    /\ op' = NoCall
    /\ sent' = <<>>
    /\ got' = <<>>
    /\ outcome' = Return(None)
    /\ UNCHANGED <<phase, config, cookie, torrent, logins, lifecycle, setCookie>>

Next ==
    \/ Construct
    \/ DownloadTorrent
    \/ RemoveTorrent
    \/ GetTorrentStatus
    \/ PauseTorrent
    \/ ResumeTorrent
    \/ GetTorrentFiles
    \/ HealthCheck
    \/ Continue

Spec == Init /\ [][Next]_vars

----------------------------------------------------------------------------
(* Vocabulary of the properties *)

CanonicalStatuses == {"unknown", "downloading", "finished", "error"}

\* the reply is a dispatch failure: a transport failure, 403, or another status >= 400
ReplyFailed(reply) == reply.t = "RequestException" \/ reply.status_code >= 400

\* the error a dispatch failure is turned into, by the kind of failure
DispatchErrorOf(reply) ==
    IF reply.t = "RequestException"
    THEN Raise("RuntimeError", <<"Decypharr request failed: ">> \o reply.cause)
    ELSE IF reply.status_code = 403
    THEN Raise("RuntimeError", <<"Decypharr authentication required or invalid">>)
    ELSE Raise("RuntimeError",
               <<"Decypharr API error ">> \o IntStr(reply.status_code) \o <<": ">>
                   \o reply.text)

DispatchErrorHeads ==
    { "Decypharr request failed: ", "Decypharr authentication required or invalid",
      "Decypharr API error " }

\* a parsed body that Python takes for false: None, False, 0, "", [], {}
Falsy(j) ==
    \/ j.t = "None"
    \/ j.t = "bool" /\ j.v = FALSE
    \/ j.t = "int" /\ j.v = 0
    \/ j.t = "str" /\ j.v = ""
    \/ j.t \in {"list", "dict"} /\ Len(j.v) = 0

\* a body the status query is specified for: not JSON, a false JSON value, or an
\* array whose first entry is an object
PlainBody(j) ==
    \/ j.t = "ValueError"
    \/ Falsy(j)
    \/ j.t = "list" /\ j.v[1].t = "dict"

\* the text is "Ok." between two runs of whitespace
IsPaddedOk(text) ==
    \E a \in 0..Len(text) :
       /\ a + 3 <= Len(text)
       /\ SubSeq(text, a + 1, a + 3) = <<"O", "k", ".">>
       /\ \A k \in 1..Len(text) : (k <= a \/ k > a + 3) => text[k] \in Whitespace

\* username and password are both configured
HasCredentials(cfg) ==
    /\ cfg.username.t = "str" /\ cfg.username.v # ""
    /\ cfg.password.t = "str" /\ cfg.password.v # ""

----------------------------------------------------------------------------
(* C1 *)

\* C1 as stated: the status query never raises; whatever the outcome of its HTTP
\* call it returns a canonical status, and `unknown` on every dispatch failure.
C1_StatusQueryTotal ==
    (op.name = "get_torrent_status" /\ (ReplyFailed(got[1]) \/ PlainBody(got[1].json))) =>
        /\ outcome.kind = "return"
        /\ outcome.value \in CanonicalStatuses
        /\ ReplyFailed(got[1]) => outcome.value = "unknown"

\* C1 (amended): the status query returns a canonical status, without raising, when
\* its request is dispatched successfully and the body is not JSON, is a false JSON
\* value, or is an array whose first entry is an object; a dispatch failure (403,
\* other status >= 400, transport failure) is not degraded to `unknown`: the status
\* query raises the dispatch primitive's error to its caller.
C1_StatusQueryRaisesDispatchFailure ==
    op.name = "get_torrent_status" =>
        /\ ReplyFailed(got[1]) => outcome = DispatchErrorOf(got[1])
        /\ (~ReplyFailed(got[1]) /\ PlainBody(got[1].json))
           => outcome.kind = "return" /\ outcome.value \in CanonicalStatuses

\* a status query answered 403 has raised
C1_Witness ==
    /\ op.name = "get_torrent_status"
    /\ got[1].t = "Response" /\ got[1].status_code = 403
    /\ outcome.kind = "raise"

----------------------------------------------------------------------------
(* C2 *)

\* C2 as stated: a dispatched submit returns a record exactly when the
\* acknowledgment body is the literal "Ok.", nothing before or after it.
C2_AckExact ==
    (op.name = "download_torrent" /\ ~ReplyFailed(got[1])) =>
        (outcome.kind = "return" <=> got[1].text = <<"O", "k", ".">>)

\* C2 (amended): submit returns a record if and only if its add request is
\* dispatched successfully and the acknowledgment body, with leading and trailing
\* whitespace removed, is the literal "Ok."; for any other body it fails with a
\* submission error carrying the stripped body, after that one request, and
\* returns no record.
C2_AckStripped ==
    op.name = "download_torrent" =>
        /\ outcome.kind = "return" <=> (~ReplyFailed(got[1]) /\ IsPaddedOk(got[1].text))
        /\ (~ReplyFailed(got[1]) /\ ~IsPaddedOk(got[1].text)) =>
              /\ outcome.kind = "raise"
              /\ outcome.type = "RuntimeError"
              /\ Head(outcome.msg) = "Failed to add torrent to Decypharr: "
              /\ Len(sent) = 1

\* a submit acknowledged with whitespace around "Ok." has returned a record
C2_Witness ==
    /\ op.name = "download_torrent"
    /\ ~ReplyFailed(got[1])
    /\ got[1].text # <<"O", "k", ".">>
    /\ IsPaddedOk(got[1].text)
    /\ outcome.kind = "return"
    /\ outcome.value.t = "Torrent"

----------------------------------------------------------------------------
(* C3 *)

\* the canonical statuses of a label, by the sets the specification lists
StatusesOfLabel(l) ==
    (IF l \in { "allocating", "downloading", "metaDL", "pausedDL", "queuedDL",
                "stalledDL", "checkingDL", "forcedDL", "moving", "stoppedDL",
                "forcedMetaDL" }
     THEN {"downloading"} ELSE {})
    \cup (IF l \in { "uploading", "pausedUP", "queuedUP", "stalledUP", "checkingUP",
                     "forcedUP", "stoppedUP", "completed" }
          THEN {"finished"} ELSE {})
    \cup (IF l \in {"missingFiles", "error", "checkingResumeData"} THEN {"error"} ELSE {})

\* the status query was dispatched and its first entry reports a string as state
ReportsLabel ==
    /\ op.name = "get_torrent_status"
    /\ ~ReplyFailed(got[1])
    /\ got[1].json.t = "list"
    /\ Len(got[1].json.v) > 0
    /\ got[1].json.v[1].t = "dict"
    /\ Len(got[1].json.v[1].v) > 0
    /\ got[1].json.v[1].v[1][1] = "state"
    /\ got[1].json.v[1].v[1][2].t = "str"

ReportedLabel == got[1].json.v[1].v[1][2].v

\* C3: the status of a reported label is `downloading`, `finished` or `error` when
\* the label is in the set of that name, and `unknown` for the label "unknown" and
\* every label outside the sets; the code's sets are pairwise disjoint, so the
\* order in which they are tested does not matter.
C3_StateResolution ==
    /\ ReportsLabel =>
          /\ outcome.kind = "return"
          /\ IF StatusesOfLabel(ReportedLabel) = {} THEN outcome.value = "unknown"
             ELSE StatusesOfLabel(ReportedLabel) = {outcome.value}
    /\ \A l \in Labels :
          Cardinality({ tuple \in {DOWNLOADING_STATE, FINISHED_STATE, ERROR_STATE,
                                   UNKNOWN_STATE} : InTuple(PyStr(l), tuple) }) <= 1

\* a status query answered "forcedMetaDL" has returned `downloading`
C3_Witness ==
    /\ ReportsLabel
    /\ ReportedLabel = "forcedMetaDL"
    /\ outcome = Return("downloading")

----------------------------------------------------------------------------
(* C4 *)

Operations ==
    { "download_torrent", "remove_torrent", "pause_torrent", "resume_torrent",
      "get_torrent_status", "get_torrent_files", "health_check" }

\* C4 as stated: no operation sends more than one HTTP request.
C4_AtMostOneCall == op.name \in Operations => Len(sent) <= 1

\* C4 (amended): every operation other than submit issues at most one network
\* call; submit issues at most two, its torrents/add request and, only when that
\* request is acknowledged, one torrents/info request.
C4_AtMostOneCallButSubmit ==
    /\ op.name \in Operations \ {"download_torrent"} => Len(sent) <= 1
    /\ op.name = "download_torrent" =>
          /\ Len(sent) \in {1, 2}
          /\ sent[1].url = "/api/v2/torrents/add"
          /\ Len(sent) = 2 =>
                /\ sent[2].url = "/api/v2/torrents/info"
                /\ ~ReplyFailed(got[1])
                /\ IsPaddedOk(got[1].text)

\* an acknowledged submit has sent two requests
C4_Witness ==
    /\ op.name = "download_torrent"
    /\ Len(sent) = 2
    /\ outcome.kind = "return"

----------------------------------------------------------------------------
(* C5 *)

\* the operations that hand the dispatch primitive's error on to their caller
PropagatingOperations ==
    { "download_torrent", "remove_torrent", "pause_torrent", "resume_torrent",
      "get_torrent_status", "get_torrent_files" }

\* C5: the dispatch primitive ends in exactly one of four ways, by the reply to its
\* request: 403 raises the authorization error, which no other reply raises; another
\* status >= 400 raises the remote-service error that carries the status code and
\* the body; a transport failure raises the transport error that carries the cause;
\* a status < 400 raises none of the three, the response goes to the operation.
C5_DispatchOutcomes ==
    op.name \in PropagatingOperations =>
        LET reply == got[1] IN
        /\ (reply.t = "Response" /\ reply.status_code = 403) =>
              outcome = Raise("RuntimeError",
                              <<"Decypharr authentication required or invalid">>)
        /\ (reply.t = "Response" /\ reply.status_code >= 400 /\ reply.status_code # 403) =>
              outcome = Raise("RuntimeError",
                              <<"Decypharr API error ">> \o IntStr(reply.status_code)
                                  \o <<": ">> \o reply.text)
        /\ reply.t = "RequestException" =>
              outcome = Raise("RuntimeError",
                              <<"Decypharr request failed: ">> \o reply.cause)
        /\ (reply.t = "Response" /\ reply.status_code < 400) =>
              ~(outcome.kind = "raise" /\ Head(outcome.msg) \in DispatchErrorHeads)

\* a pause answered 403 has raised the authorization error
C5_Witness ==
    /\ op.name = "pause_torrent"
    /\ got[1].t = "Response" /\ got[1].status_code = 403
    /\ outcome.kind = "raise"
    /\ outcome.msg = <<"Decypharr authentication required or invalid">>

----------------------------------------------------------------------------
(* C6 *)

\* the login exchange did not succeed
LoginFailed(reply) == reply.t = "RequestException" \/ reply.status_code # 200

\* C6: with credentials configured, construction sends the login request and, when
\* the login exchange does not succeed (403, another status than 200, transport
\* failure), raises; from then on there is no client, and no request other than
\* the login request has been sent.
C6_FailedLoginFailsConstruction ==
    /\ (op.name = "__init__" /\ HasCredentials(config)) =>
          /\ Len(sent) = 1
          /\ LoginFailed(got[1]) =>
                /\ outcome.kind = "raise"
                /\ outcome.type = "RuntimeError"
                /\ phase = "failed"
    /\ phase = "failed" => (~lifecycle /\ op.name \notin Operations)

\* a construction whose login was answered 500 has failed
C6_Witness ==
    /\ op.name = "__init__"
    /\ got # <<>>
    /\ got[1].t = "Response" /\ got[1].status_code = 500
    /\ phase = "failed"
    /\ outcome.kind = "raise"

----------------------------------------------------------------------------
(* C7 *)

\* C7: at most one login request is ever sent; once construction is over, exactly
\* one has been sent when username and password are configured and none when they
\* are not; it is sent by the constructor, before any other request; no lifecycle
\* operation sends one, whatever the reply to its own request.
C7_SingleLogin ==
    /\ logins <= 1
    /\ phase # "new" => logins = (IF HasCredentials(config) THEN 1 ELSE 0)
    /\ op.name = "__init__" => ~lifecycle
    /\ op.name \in Operations =>
          \A i \in 1..Len(sent) : sent[i].url # "/api/v2/auth/login"

\* a status query answered 403 on a client that logged in: still one login
C7_Witness ==
    /\ op.name = "get_torrent_status"
    /\ got[1].t = "Response" /\ got[1].status_code = 403
    /\ HasCredentials(config)
    /\ logins = 1

----------------------------------------------------------------------------
(* C8 *)

\* the add request of the submit was dispatched and acknowledged
Acknowledged ==
    /\ op.name = "download_torrent"
    /\ ~ReplyFailed(got[1])
    /\ IsPaddedOk(got[1].text)

\* C8: an acknowledged submit returns the record, whatever becomes of the status
\* query that follows: with the status that query returns when it returns one, and
\* with `unknown` when it fails in any way (dispatch failure or exception).
C8_SubmitSurvivesStatusFailure ==
    Acknowledged =>
        /\ Len(sent) = 2
        /\ outcome.kind = "return"
        /\ outcome.value.t = "Torrent"
        /\ LET q == get_torrent_status(cookie, outcome.value, got[2]).outcome
           IN  outcome.value.status = IF q.kind = "return" THEN q.value ELSE "unknown"
        /\ ReplyFailed(got[2]) => outcome.value.status = "unknown"

\* an acknowledged submit whose status query met a transport failure has returned
\* a record with status `unknown`
C8_Witness ==
    /\ Acknowledged
    /\ Len(got) = 2
    /\ got[2].t = "RequestException"
    /\ outcome.kind = "return"
    /\ outcome.value.status = "unknown"

----------------------------------------------------------------------------
(* C9 *)

\* C9: the health check never raises; it returns true when its request is answered
\* with a status < 400, whatever the body, and false on every failure.
C9_HealthCheckTotal ==
    op.name = "health_check" =>
        outcome = Return(got[1].t = "Response" /\ got[1].status_code < 400)

\* a health check that met a transport failure has returned false
C9_Witness ==
    /\ op.name = "health_check"
    /\ got[1].t = "RequestException"
    /\ outcome = Return(FALSE)

----------------------------------------------------------------------------
(* C10 *)

MutatingOperations ==
    {"download_torrent", "remove_torrent", "pause_torrent", "resume_torrent"}

\* C10: when the request of a cancel, pause or resume, or the add request of a
\* submit, meets a dispatch failure, the operation ends by raising the very error
\* the dispatch primitive raised, after that one request; a submit returns no
\* record.
C10_MutatingOperationsPropagate ==
    (op.name \in MutatingOperations /\ ReplyFailed(got[1])) =>
        /\ outcome.kind = "raise"
        /\ outcome = _request(cookie, sent[1].method, sent[1].url, sent[1].params,
                              sent[1].data, got[1]).outcome
        /\ Len(sent) = 1

\* a cancel answered 500 has raised
C10_Witness ==
    /\ op.name = "remove_torrent"
    /\ got[1].t = "Response" /\ got[1].status_code = 500
    /\ outcome.kind = "raise"
    /\ Head(outcome.msg) = "Decypharr API error "

----------------------------------------------------------------------------
(* C11 *)

\* the requests of the call just made other than the login itself
LaterRequests == {i \in 1..Len(sent) : sent[i].url # LoginUrl}

\* the login request was sent and answered 200 with an SID cookie
LoginCapturedToken ==
    /\ phase = "ready"
    /\ logins = 1
    /\ "SID" \in DOMAIN setCookie

----------------------------------------------------------------------------
(* C12 *)

\* the request of the call was dispatched: answered with a status below 400
Dispatched == got # <<>> /\ ~ReplyFailed(got[1])

\* C12: a status query whose request is dispatched successfully returns
\* `unknown`, without raising and after that one request, when the body is not
\* JSON and when the body parses to an empty array.
C12_UnparsableOrEmptyIsUnknown ==
    (/\ op.name = "get_torrent_status"
     /\ Dispatched
     /\ \/ got[1].json.t = "ValueError"
        \/ got[1].json.t = "list" /\ got[1].json.v = <<>>) =>
        /\ outcome = Return("unknown")
        /\ Len(sent) = 1

\* a status query answered 200 with a body that is not JSON has returned `unknown`
C12_Witness ==
    /\ op.name = "get_torrent_status"
    /\ got[1].t = "Response" /\ got[1].status_code = 200
    /\ got[1].json.t = "ValueError"
    /\ outcome = Return("unknown")

----------------------------------------------------------------------------
(* C13 *)

\* C13: a cancel sends exactly one request, a POST to torrents/delete whose form
\* has `hashes` equal to the record's identifier and `deleteFiles` equal to the
\* string "true" when delete_data is true and the string "false" when it is false.
C13_DeleteRequest ==
    op.name = "remove_torrent" =>
        /\ Len(sent) = 1
        /\ sent[1].method = "POST"
        /\ sent[1].url = "/api/v2/torrents/delete"
        /\ sent[1].params = None
        /\ sent[1].data = [hashes |-> op.args.torrent.hash,
                           deleteFiles |-> IF op.args.delete_data THEN "true" ELSE "false"]

\* a cancel with delete_data true has sent deleteFiles "true", one with
\* delete_data false would send "false"
C13_Witness ==
    /\ op.name = "remove_torrent"
    /\ op.args.delete_data
    /\ sent[1].data.deleteFiles = "true"
    /\ outcome = Return(None)

----------------------------------------------------------------------------
(* C14 *)

\* C14: a pause and a resume each send exactly one request, a POST to
\* torrents/pause and to torrents/resume keyed by the record's identifier, and no
\* torrents/info request; they return nothing; and the record has after the
\* call, ended by a return or by a raise, the fields it had before it.
C14_PauseResumeFrame ==
    op.name \in {"pause_torrent", "resume_torrent"} =>
        /\ Len(sent) = 1
        /\ sent[1].method = "POST"
        /\ sent[1].url = (IF op.name = "pause_torrent" THEN "/api/v2/torrents/pause"
                          ELSE "/api/v2/torrents/resume")
        /\ sent[1].data = [hashes |-> op.args.torrent.hash]
        /\ \A i \in 1..Len(sent) : sent[i].url # "/api/v2/torrents/info"
        /\ outcome.kind = "return" => outcome.value = None
        /\ torrent = op.args.torrent

\* a pause of a record reported `finished` has succeeded and the record is as it was
C14_Witness ==
    /\ op.name = "pause_torrent"
    /\ got[1].t = "Response" /\ got[1].status_code = 200
    /\ outcome = Return(None)
    /\ torrent = StoredTorrent

----------------------------------------------------------------------------
(* C15 *)

\* what a list-files does with the reply to its one request
ListFilesOutcomes ==
    op.name = "get_torrent_files" =>
        /\ (Dispatched /\ got[1].json.t = "ValueError") => outcome = Return(JArr(<<>>))
        /\ (Dispatched /\ got[1].json.t # "ValueError") => outcome = Return(got[1].json)
        /\ ReplyFailed(got[1]) => outcome = DispatchErrorOf(got[1])
        /\ Len(sent) = 1

\* C15 as stated: a list-files whose request is dispatched successfully returns
\* the empty sequence, without raising, when the body is not JSON, and the
\* parsed body when it is; it raises dispatch failures (403, another status
\* >= 400, a transport failure) to the caller, and in that it differs from the
\* status query and the health-check, which end by a return on such a failure.
C15_ListFilesUnlikeStatusQuery ==
    /\ ListFilesOutcomes
    /\ (op.name \in {"get_torrent_status", "health_check"} /\ ReplyFailed(got[1])) =>
          outcome.kind = "return"

\* C15: a list-files whose request is dispatched successfully returns the empty
\* sequence, without raising, when the body is not JSON, and the parsed body
\* when it is; it raises dispatch failures to the caller as the dispatch
\* primitive raised them, as the status query does and the health-check does not.
C15_ListFilesLikeStatusQuery ==
    /\ ListFilesOutcomes
    /\ (op.name = "get_torrent_status" /\ ReplyFailed(got[1])) =>
          outcome = DispatchErrorOf(got[1])
    /\ (op.name = "health_check" /\ ReplyFailed(got[1])) => outcome = Return(FALSE)

\* a list-files answered 200 with a body that is not JSON has returned no files
C15_Witness ==
    /\ op.name = "get_torrent_files"
    /\ got[1].t = "Response" /\ got[1].status_code = 200
    /\ got[1].json.t = "ValueError"
    /\ outcome = Return(JArr(<<>>))

----------------------------------------------------------------------------
(* C16 *)

\* C16: a status query whose request is dispatched successfully and whose body
\* parses never raises, whatever the shape of the parsed body (not an array, an
\* array whose first entry is not an object, a first entry without `state` or
\* with a `state` that is not a string): it returns a canonical status.
C16_ResolutionNeverRaises ==
    (op.name = "get_torrent_status" /\ Dispatched /\ got[1].json.t # "ValueError") =>
        /\ outcome.kind = "return"
        /\ outcome.value \in CanonicalStatuses

----------------------------------------------------------------------------
(* C17 *)

\* the positions of the torrents/info requests among the requests of the call
InfoRequests == {i \in 1..Len(sent) : sent[i].url = "/api/v2/torrents/info"}

\* C17: a submit sends its torrents/add request first; when that request fails
\* or its answer is not the acknowledgement, no torrents/info request is sent;
\* when it is acknowledged, exactly one torrents/info request follows it, a GET
\* keyed by the identifier derived from the submitted source locator.
C17_InfoOnlyAfterAck ==
    op.name = "download_torrent" =>
        /\ sent[1].url = "/api/v2/torrents/add"
        /\ ~Acknowledged => (InfoRequests = {} /\ Len(sent) = 1)
        /\ Acknowledged =>
              /\ InfoRequests = {2} /\ Len(sent) = 2
              /\ sent[2].method = "GET"
              /\ sent[2].params = [hashes |-> get_torrent_hash(op.args.indexer_result)]

\* a submit of the locator of "bbbb" was acknowledged and has queried "bbbb"
C17_Witness ==
    /\ Acknowledged
    /\ op.args.indexer_result.title = "B"
    /\ Len(sent) = 2
    /\ sent[2].url = "/api/v2/torrents/info"
    /\ sent[2].params.hashes = "bbbb"

----------------------------------------------------------------------------
(* C18 *)

\* the outcome of a status query made for the identifier by a client that has
\* just been constructed without credentials, on a record that carries nothing
\* but the identifier
FreshOutcome(hash, reply) ==
    get_torrent_status(None, Torrent("unknown", "", "", FALSE, hash), reply).outcome

\* C18: the outcome of a status query is a function of the reply to that one
\* query: whatever operations went before, whatever the session token and
\* whatever status, title and quality the record holds, it is the outcome a
\* fresh client gets from the same reply for the same identifier; so two clients
\* that get the same reply for the same identifier return the same status.
C18_StatusDependsOnReplyOnly ==
    op.name = "get_torrent_status" =>
        /\ outcome = FreshOutcome(op.args.torrent.hash, got[1])
        /\ torrent = op.args.torrent

\* the record a submit returned with status `finished` is queried, the remote
\* answers with an empty array, and the query returns `unknown`
C18_Witness ==
    /\ op.name = "get_torrent_status"
    /\ op.args.torrent.title = "A"
    /\ op.args.torrent.status = "finished"
    /\ got[1].t = "Response" /\ got[1].json = JArr(<<>>)
    /\ outcome = Return("unknown")

----------------------------------------------------------------------------
(* C19 *)

\* the login request was sent and answered 200 without an SID cookie
TokenlessLogin ==
    /\ op.name = "__init__"
    /\ got # <<>>
    /\ got[1].t = "Response" /\ got[1].status_code = 200
    /\ "SID" \notin DOMAIN got[1].cookies

\* C19: when the login is answered 200 without an SID cookie, construction ends
\* by a return with no session token stored, and every request of every later
\* operation is sent without an explicit token.
C19_TokenlessLoginSucceeds ==
    /\ TokenlessLogin => (outcome = Return(None) /\ phase = "ready" /\ cookie = None)
    /\ (phase = "ready" /\ logins = 1 /\ "SID" \notin DOMAIN setCookie) =>
          /\ cookie = None
          /\ \A i \in LaterRequests : sent[i].cookies = None

\* a client whose login was answered 200 without an SID cookie has sent a
\* health-check without a token
C19_Witness ==
    /\ op.name = "health_check"
    /\ logins = 1
    /\ "SID" \notin DOMAIN setCookie
    /\ sent[1].cookies = None
    /\ outcome = Return(TRUE)

====
